---- MODULE Spec2Model ----
(***************************************************************************)
(* Model of the tshdl value/shape algebra: the numeric sizing utilities    *)
(* (src/src/util.ts), Range (src/unnamed/part_000) and Shape, Value,       *)
(* Const, AnyValue, Operator and Slice (src/src/hdl/ast.ts).               *)
(*                                                                         *)
(* The library is a set of constructors and pure functions.  A behaviour   *)
(* is a sequence of calls: from pc = "idle" one call is made with inputs   *)
(* drawn from bounded sets, its outcome (a returned value or the thrown    *)
(* exception) is recorded in ret, a getter may then be read on the         *)
(* returned object, and Return goes back to idle.                          *)
(***************************************************************************)
EXTENDS Integers, Sequences, FiniteSets, TLC

VARIABLES pc, call, ret

vars == <<pc, call, ret>>

(***************************************************************************)
(* Bounds of the model.                                                    *)
(***************************************************************************)
MaxWidth == 4
MaxVal == 20
MaxRange == 5
MaxDictLen == 2
MaxPatLen == 1
MaxPatterns == 2
MaxYield == 12

Vals == (0 - MaxVal)..MaxVal
Widths == (0 - 1)..(MaxWidth + 1)
RangeVals == (0 - MaxRange)..MaxRange

(***************************************************************************)
(* JavaScript values.  A number and a bigint of the same magnitude are     *)
(* different values: === between them is false.                            *)
(***************************************************************************)
Num(v) == [t |-> "number", v |-> v]
Big(v) == [t |-> "bigint", v |-> v]
BigInt(n) == Big(n.v)
StrictEq(a, b) == a.t = b.t /\ a.v = b.v
undefined == [t |-> "undefined"]

JsInts == {Num(v) : v \in Vals} \cup {Big(v) : v \in Vals}

(***************************************************************************)
(* Outcome of a call: a returned value, or a thrown exception.             *)
(***************************************************************************)
Ret(v) == [thrown |-> "none", value |-> v]
Throw(e) == [thrown |-> e, value |-> undefined]
Returned(r) == r.thrown = "none"
\* The outcome r of a function that returns a number.
AsNumber(r) == IF Returned(r) THEN Ret(Num(r.value)) ELSE r

\* The exceptions the code throws: the assertion messages (without their
\* interpolated arguments), and the bare `throw ""` of unimplemented methods.
InvalidShape == "Shape must be non-negative and non-zero."
NotPowerOfTwo == "is not a power of 2."
OutOfRangeStart == "Cannot start a slice that many bits into value."
OutOfRangeStop == "Cannot stop a slice that many bits into value."
OutOfRangeOrder == "Slice start must be less than slice stop."
InvalidPattern == "Match test string contains invalid characters."
EmptyThrow == ""
RangeError == "RangeError"
BadPosition == "Position out of the stack history."
StepZero == "step must be non-zero."
StepNegative == "step must be positive."
BadArgCount == "Invalid amount of arguments. Expected 1, 2, or 3."

(***************************************************************************)
(* src/src/util.ts                                                         *)
(***************************************************************************)
RECURSIVE toString2Length(_)
\* n.toString(2).length for n >= 0: the number of binary digits, "0" has one.
toString2Length(n) == IF n < 2 THEN 1 ELSE 1 + toString2Length(n \div 2)

bitLength(n, zeroIsZero) ==
    LET m == IF n.v < 0 THEN [n EXCEPT !.v = 0 - n.v] ELSE n
    IN  IF StrictEq(m, Num(0)) /\ zeroIsZero
        THEN 0
        ELSE toString2Length(m.v)

log2_int(n, need_pow2) ==
    IF StrictEq(n, Num(0))
    THEN Ret(0)
    ELSE LET b == BigInt(n)
             r == bitLength(Big(b.v - 1), FALSE)
         IN  IF need_pow2 /\ 2 ^ r # b.v
             THEN Throw(NotPowerOfTwo)
             ELSE Ret(r)

\* A plausible slip: the forced sign bit of n <= 0 is forgotten.
bitsFor_NoForcedSign(n, requireSignBit) ==
    LET b == BigInt(n)
        r == IF b.v > 0
             THEN log2_int(Big(b.v + 1), FALSE).value
             ELSE log2_int(Big(0 - b.v), FALSE).value
    IN  IF requireSignBit THEN r + 1 ELSE r

bitsFor(n, requireSignBit) ==
    LET b == BigInt(n)
        r == IF b.v > 0
             THEN log2_int(Big(b.v + 1), FALSE).value
             ELSE log2_int(Big(0 - b.v), FALSE).value
        sign == IF b.v > 0 THEN requireSignBit ELSE TRUE
    IN  IF sign THEN r + 1 ELSE r

(***************************************************************************)
(* BigInt bitwise operators, on twos complement of unbounded length.       *)
(***************************************************************************)
RECURSIVE BitAnd(_, _)
BitAnd(a, b) ==
    IF a = 0 \/ b = 0 THEN 0
    ELSE IF a = 0 - 1 THEN b
    ELSE IF b = 0 - 1 THEN a
    ELSE (a % 2) * (b % 2) + 2 * BitAnd(a \div 2, b \div 2)

RECURSIVE BitOr(_, _)
BitOr(a, b) ==
    IF a = 0 THEN b
    ELSE IF b = 0 THEN a
    ELSE IF a = 0 - 1 \/ b = 0 - 1 THEN 0 - 1
    ELSE (IF a % 2 = 1 \/ b % 2 = 1 THEN 1 ELSE 0) + 2 * BitOr(a \div 2, b \div 2)

BitNot(a) == 0 - a - 1
ShiftLeft(a, k) == a * 2 ^ k
ShiftRight(a, k) == a \div 2 ^ k

(***************************************************************************)
(* src/src/hdl/ast.ts: Shape                                               *)
(***************************************************************************)
\* A plausible slip: the assertion accepts a width of zero.
ShapeNew_AcceptsZero(width, signed) ==
    IF width >= 0
    THEN Ret([width |-> width, signed |-> signed])
    ELSE Throw(InvalidShape)

ShapeNew(width, signed) ==
    IF width >= 1
    THEN Ret([width |-> width, signed |-> signed])
    ELSE Throw(InvalidShape)

ShapeSigned(width) == ShapeNew(width, TRUE)
ShapeUnsigned(width) == ShapeNew(width, FALSE)

\* The Shape objects the constructor returns within the bounds.
Shapes == {ShapeNew(w, s).value : w \in 1..MaxWidth, s \in BOOLEAN}

(***************************************************************************)
(* src/src/hdl/ast.ts: Const.normalize                                     *)
(***************************************************************************)
\* A plausible slip: the sign extension subtracts the mask, not 2^width.
normalize_OffByOne(value, shape) ==
    LET mask == ShiftLeft(1, shape.width) - 1
        low == BitAnd(value, mask)
    IN  IF shape.signed /\ ShiftRight(low, shape.width - 1) # 0
        THEN low - mask
        ELSE low

\* A plausible slip: the sign bit is tested at position width, not width - 1.
normalize_WrongSignBit(value, shape) ==
    LET mask == ShiftLeft(1, shape.width) - 1
        low == BitAnd(value, mask)
    IN  IF shape.signed /\ ShiftRight(low, shape.width) # 0
        THEN BitOr(low, BitNot(mask))
        ELSE low

normalize(value, shape) ==
    LET mask == ShiftLeft(1, shape.width) - 1
        low == BitAnd(value, mask)
    IN  IF shape.signed /\ ShiftRight(low, shape.width - 1) # 0
        THEN BitOr(low, BitNot(mask))
        ELSE low

(***************************************************************************)
(* src/unnamed/part_000: Range                                             *)
(***************************************************************************)
RangeObj(start, stop, step) == [start |-> start, stop |-> stop, step |-> step]

\* args is a number, an array of numbers, or named arguments whose optional
\* start and step may be absent.
RangeNew(args) ==
    IF args.k = "number"
    THEN Ret(RangeObj(0, args.num, 1))
    ELSE IF args.k = "named"
    THEN IF args.hasStep /\ args.step # 0 /\ ~(args.step > 0)
         THEN Throw(StepNegative)
         ELSE Ret(RangeObj(IF args.hasStart THEN args.start ELSE 0,
                           args.stop,
                           IF args.hasStep THEN args.step ELSE 1))
    ELSE IF Len(args.a) = 0 \/ ~(Len(args.a) <= 3)
    THEN Throw(BadArgCount)
    ELSE IF Len(args.a) = 1
    THEN Ret(RangeObj(0, args.a[1], 1))
    ELSE IF Len(args.a) = 2
    THEN Ret(RangeObj(args.a[1], args.a[2], 1))
    ELSE IF ~(args.a[3] # 0)
    THEN Throw(StepZero)
    ELSE IF ~(args.a[3] > 0)
    THEN Throw(StepNegative)
    ELSE Ret(RangeObj(args.a[1], args.a[2], args.a[3]))

RangeArgs ==
    {[k |-> "number", num |-> n] : n \in RangeVals}
    \cup {[k |-> "array", a |-> a] :
            a \in UNION {[1..len -> RangeVals] : len \in 0..3} \cup {<<0, 1, 1, 1>>}}
    \cup {[k |-> "named", hasStart |-> hs, start |-> IF hs THEN st ELSE 0,
           stop |-> sp, hasStep |-> he, step |-> IF he THEN se ELSE 0] :
            hs \in BOOLEAN, st \in RangeVals, sp \in RangeVals,
            he \in BOOLEAN, se \in RangeVals}

\* The Range objects the constructor returns within the bounds.
Ranges == {RangeNew(a).value : a \in {x \in RangeArgs : Returned(RangeNew(x))}}

RECURSIVE CountUp(_, _, _)
CountUp(current, stop, step) ==
    IF current < stop
    THEN <<current>> \o CountUp(current + step, stop, step)
    ELSE <<>>

RECURSIVE CountDown(_, _, _)
CountDown(current, stop, step) ==
    IF current > stop
    THEN <<current>> \o CountDown(current - step, stop, step)
    ELSE <<>>

\* The values the iterator yields, in order.  Evaluated for step > 0 only:
\* with step = 0 the loops never leave start.
RangeIterate(r) ==
    IF r.start = r.stop THEN <<>>
    ELSE IF r.stop < r.start THEN CountDown(r.start, r.stop, r.step)
    ELSE CountUp(r.start, r.stop, r.step)

(***************************************************************************)
(* src/src/hdl/ast.ts: Shape.cast                                          *)
(***************************************************************************)
MathMax(a, b) == IF a >= b THEN a ELSE b
\* Math.min(...xs) of a non-empty sequence.
MathMin(xs) == CHOOSE m \in {xs[i] : i \in DOMAIN xs} :
                   \A i \in DOMAIN xs : m <= xs[i]

ShapeCastRange(obj) ==
    LET signed == obj.start < 0 \/ (obj.stop - obj.step) < 0
        width == MathMax(bitsFor(Num(obj.start), signed),
                         bitsFor(Num(obj.stop - obj.step), signed))
    IN  ShapeNew(width, signed)

\* Math.min() of no values is Infinity, which BigInt() refuses.
ShapeCastDict(values) ==
    IF Len(values) = 0
    THEN Throw(RangeError)
    ELSE LET min == MathMin(values)
             max == MathMin(values)
             signed == min < 0 \/ max < 0
             width == MathMax(bitsFor(Num(min), signed), bitsFor(Num(max), signed))
         IN  ShapeNew(width, signed)

ShapeCast(obj) ==
    IF obj.k = "Shape" THEN ShapeNew(obj.shape.width, obj.shape.signed)
    ELSE IF obj.k = "number" THEN ShapeUnsigned(obj.num)
    ELSE IF obj.k = "tuple" THEN ShapeNew(obj.width, obj.signed)
    ELSE IF obj.k = "Range" THEN ShapeCastRange(obj.range)
    ELSE ShapeCastDict(obj.values)

DictValues == UNION {[1..len -> RangeVals] : len \in 0..MaxDictLen}

ShapeCastFrom ==
    {[k |-> "Shape", shape |-> s] : s \in Shapes}
    \cup {[k |-> "number", num |-> n] : n \in Widths}
    \cup {[k |-> "tuple", width |-> w, signed |-> s] : w \in Widths, s \in BOOLEAN}
    \cup {[k |-> "Range", range |-> r] : r \in Ranges}
    \cup {[k |-> "dict", values |-> d] : d \in DictValues}

(***************************************************************************)
(* src/src/hdl/ast.ts: Value, Const, AnyValue, Operator, Slice             *)
(***************************************************************************)
\* The two assertions of getSourceInfo; the record it returns is opaque.
getSourceInfoOk(position) == position >= 0 /\ position < 9

ValueCast(obj) ==
    IF obj.k = "Value" THEN Ret(obj.obj) ELSE Throw(EmptyThrow)

ConstNew(value, shape, srcLoc) ==
    IF ~getSourceInfoOk(srcLoc + 2)
    THEN Throw(BadPosition)
    ELSE LET sh == IF shape = undefined
                   THEN ShapeNew(bitsFor(Big(value), FALSE), value < 0)
                   ELSE Ret(shape)
         IN  IF ~Returned(sh)
             THEN sh
             ELSE Ret([type |-> "Const",
                       value |-> normalize(value, sh.value),
                       shape |-> sh.value])

AnyValueNew(shape, srcLoc) ==
    IF ~getSourceInfoOk(srcLoc + 2)
    THEN Throw(BadPosition)
    ELSE LET sh == ShapeCast(shape)
         IN  IF ~Returned(sh)
             THEN sh
             ELSE Ret([type |-> "AnyValue", shape |-> sh.value])

OperatorNew(operator, operands, srcLoc) ==
    IF ~getSourceInfoOk(srcLoc + 2)
    THEN Throw(BadPosition)
    ELSE IF \E i \in DOMAIN operands : ~Returned(ValueCast(operands[i]))
    THEN Throw(EmptyThrow)
    ELSE Ret([type |-> "Operator",
              operator |-> operator,
              operands |-> [i \in DOMAIN operands |-> ValueCast(operands[i]).value]])

\* The shape getter of each class.
ValueShape(self) ==
    IF self.type \in {"Const", "AnyValue"} THEN Ret(self.shape)
    ELSE IF self.type = "Operator" THEN Throw(EmptyThrow)
    ELSE ShapeNew(self.stop - self.start, FALSE)

SliceNew(value, start, stop, srcLoc) ==
    LET value2 == ValueCast(value)
    IN  IF ~Returned(value2) THEN value2
        ELSE LET sh == ValueShape(value2.value)
             IN  IF ~Returned(sh) THEN sh
                 ELSE LET n == sh.value.width
                          start2 == IF start < 0 THEN start + n ELSE start
                          stop2 == IF stop < 0 THEN n ELSE stop
                      IN  IF ~((0 - (n + 1) >= start) /\ ((n + 1) <= start))
                          THEN Throw(OutOfRangeStart)
                          ELSE IF ~((0 - (n + 1) >= stop) /\ ((n + 1) <= stop))
                          THEN Throw(OutOfRangeStop)
                          ELSE IF ~(stop2 <= start2)
                          THEN Throw(OutOfRangeOrder)
                          ELSE IF ~getSourceInfoOk(srcLoc + 2)
                          THEN Throw(BadPosition)
                          ELSE Ret([type |-> "Slice", value |-> value2.value,
                                    start |-> start2, stop |-> stop2])

\* /[^01*]+/.test(testStr): some character of testStr is none of 0, 1, *.
RegexTest(testStr) == \E i \in DOMAIN testStr : testStr[i] \notin {"0", "1", "*"}

matches(self, patterns) ==
    IF \E i \in DOMAIN patterns : ~RegexTest(patterns[i])
    THEN Throw(InvalidPattern)
    ELSE Throw(EmptyThrow)

(***************************************************************************)
(* Inputs of the calls.                                                    *)
(***************************************************************************)
\* Const and AnyValue objects of every shape within the bounds.
SampleValues ==
    {ConstNew(v, s, 0).value : v \in {2, 3}, s \in Shapes}
    \cup {AnyValueNew([k |-> "Shape", shape |-> s], 0).value : s \in Shapes}

ValueCastFrom ==
    {[k |-> "Value", obj |-> v] : v \in SampleValues}
    \cup {[k |-> "number", num |-> 3]}

\* The 3-bit Const valued 5 (101), and a 1-bit placeholder.
MatchSubjects ==
    {ConstNew(5, undefined, 0).value,
     AnyValueNew([k |-> "number", num |-> 1], 0).value}

Offsets == (0 - (MaxWidth + 2))..(MaxWidth + 2)
Chars == {"0", "1", "*", "x"}
Strings == UNION {[1..len -> Chars] : len \in 0..MaxPatLen}
PatternLists == UNION {[1..len -> Strings] : len \in 0..MaxPatterns}
Operators == {"+", "-", "*"}

(***************************************************************************)
(* Calls.  call names the function and its arguments, ret is its outcome;  *)
(* a returned number or bigint is recorded as the JavaScript value it is.  *)
(***************************************************************************)
Init ==
    /\ pc = "idle"
    /\ call = [fn |-> "none", args |-> undefined]
    /\ ret = Throw("none yet")

CallBitLength ==
    /\ pc = "idle"
    /\ \E n \in JsInts, z \in BOOLEAN :
        /\ call' = [fn |-> "bitLength", args |-> [n |-> n, zeroIsZero |-> z]]
        /\ ret' = Ret(Num(bitLength(n, z)))
    /\ pc' = "done"

CallLog2Int ==
    /\ pc = "idle"
    /\ \E n \in JsInts, p \in BOOLEAN :
        /\ call' = [fn |-> "log2_int", args |-> [n |-> n, need_pow2 |-> p]]
        /\ ret' = AsNumber(log2_int(n, p))
    /\ pc' = "done"

CallBitsFor ==
    /\ pc = "idle"
    /\ \E n \in JsInts, s \in BOOLEAN :
        /\ call' = [fn |-> "bitsFor", args |-> [n |-> n, requireSignBit |-> s]]
        /\ ret' = Ret(Num(bitsFor(n, s)))
    /\ pc' = "done"

CallNormalize ==
    /\ pc = "idle"
    /\ \E v \in Vals, shape \in Shapes :
        /\ call' = [fn |-> "Const.normalize", args |-> [value |-> v, shape |-> shape]]
        /\ ret' = Ret(Big(normalize(v, shape)))
    /\ pc' = "done"

NewShape ==
    /\ pc = "idle"
    /\ \E w \in Widths, s \in BOOLEAN :
        /\ call' = [fn |-> "Shape", args |-> [width |-> w, signed |-> s]]
        /\ ret' = ShapeNew(w, s)
    /\ pc' = "done"

CallShapeSigned ==
    /\ pc = "idle"
    /\ \E w \in Widths :
        /\ call' = [fn |-> "Shape.signed", args |-> [width |-> w]]
        /\ ret' = ShapeSigned(w)
    /\ pc' = "done"

CallShapeUnsigned ==
    /\ pc = "idle"
    /\ \E w \in Widths :
        /\ call' = [fn |-> "Shape.unsigned", args |-> [width |-> w]]
        /\ ret' = ShapeUnsigned(w)
    /\ pc' = "done"

NewRange ==
    /\ pc = "idle"
    /\ \E a \in RangeArgs :
        /\ call' = [fn |-> "Range", args |-> [rangeArgs |-> a]]
        /\ ret' = RangeNew(a)
    /\ pc' = "done"

CallShapeCast ==
    /\ pc = "idle"
    /\ \E obj \in ShapeCastFrom :
        /\ call' = [fn |-> "Shape.cast", args |-> [obj |-> obj]]
        /\ ret' = ShapeCast(obj)
    /\ pc' = "done"

NewConst ==
    /\ pc = "idle"
    /\ \E v \in Vals, s \in Shapes \cup {undefined} :
        /\ call' = [fn |-> "Const", args |-> [value |-> v, shape |-> s]]
        /\ ret' = ConstNew(v, s, 0)
    /\ pc' = "done"

NewAnyValue ==
    /\ pc = "idle"
    /\ \E obj \in ShapeCastFrom :
        /\ call' = [fn |-> "AnyValue", args |-> [obj |-> obj]]
        /\ ret' = AnyValueNew(obj, 0)
    /\ pc' = "done"

NewOperator ==
    /\ pc = "idle"
    /\ \E op \in Operators, a \in ValueCastFrom, b \in ValueCastFrom :
        /\ call' = [fn |-> "Operator", args |-> [operator |-> op, operands |-> <<a, b>>]]
        /\ ret' = OperatorNew(op, <<a, b>>, 0)
    /\ pc' = "done"

NewSlice ==
    /\ pc = "idle"
    /\ \E v \in ValueCastFrom, start \in Offsets, stop \in Offsets :
        /\ call' = [fn |-> "Slice", args |-> [of |-> v, start |-> start, stop |-> stop]]
        /\ ret' = SliceNew(v, start, stop, 0)
    /\ pc' = "done"

CallMatches ==
    /\ pc = "idle"
    /\ \E self \in MatchSubjects, patterns \in PatternLists :
        /\ call' = [fn |-> "matches", args |-> [self |-> self, patterns |-> patterns]]
        /\ ret' = matches(self, patterns)
    /\ pc' = "done"

\* Reads the shape getter of the Value object the last constructor returned.
GetShape ==
    /\ pc = "done"
    /\ call.fn \in {"Const", "AnyValue", "Operator", "Slice"}
    /\ Returned(ret)
    /\ pc' = "done"
    /\ call' = [fn |-> "shape", args |-> [self |-> ret.value]]
    /\ ret' = ValueShape(ret.value)

\* The loop test of the iterator of Range self, with its loop variable at
\* current: another value is yielded.
IterContinues(self, current) ==
    /\ ~(self.start = self.stop)
    /\ IF self.stop < self.start
       THEN current > self.stop
       ELSE current < self.stop

\* Iterates the Range the constructor returned: the generator is created
\* with its loop variable at start and nothing yielded yet.
IterStart ==
    /\ pc = "done"
    /\ call.fn = "Range"
    /\ Returned(ret)
    /\ pc' = "iterating"
    /\ call' = [fn |-> "Range.iterator", args |-> [self |-> ret.value]]
    /\ ret' = Ret([current |-> ret.value.start, yielded |-> <<>>])

\* One yield of the generator; the model follows it for MaxYield values.
IterYield ==
    /\ pc = "iterating"
    /\ IterContinues(call.args.self, ret.value.current)
    /\ Len(ret.value.yielded) < MaxYield
    /\ ret' = Ret([current |-> IF call.args.self.stop < call.args.self.start
                               THEN ret.value.current - call.args.self.step
                               ELSE ret.value.current + call.args.self.step,
                   yielded |-> Append(ret.value.yielded, ret.value.current)])
    /\ UNCHANGED <<pc, call>>

\* The loop test fails (or start = stop): the generator returns.
IterFinish ==
    /\ pc = "iterating"
    /\ ~IterContinues(call.args.self, ret.value.current)
    /\ pc' = "done"
    /\ UNCHANGED <<call, ret>>

Return ==
    /\ pc = "done"
    /\ pc' = "idle"
    /\ call' = [fn |-> "none", args |-> undefined]
    /\ ret' = Throw("none yet")

Next ==
    \/ CallBitLength
    \/ CallLog2Int
    \/ CallBitsFor
    \/ CallNormalize
    \/ NewShape
    \/ CallShapeSigned
    \/ CallShapeUnsigned
    \/ NewRange
    \/ CallShapeCast
    \/ NewConst
    \/ NewAnyValue
    \/ NewOperator
    \/ NewSlice
    \/ CallMatches
    \/ GetShape
    \/ IterStart
    \/ IterYield
    \/ IterFinish
    \/ Return

Spec == Init /\ [][Next]_vars

(***************************************************************************)
(* Properties.                                                             *)
(***************************************************************************)
IsCall(fn) == pc = "done" /\ call.fn = fn

\* C1: Const.normalize(v, shape) returns the canonical representative of v:
\* congruent to v modulo 2^width, within [0, 2^width - 1] for an unsigned
\* shape and within [-2^(width-1), 2^(width-1) - 1] for a signed one.
NormalizeCanonical ==
    IsCall("Const.normalize") =>
        LET v == call.args.value
            signed == call.args.shape.signed
            w == call.args.shape.width
        IN  /\ Returned(ret)
            /\ ret.value.t = "bigint"
            /\ (ret.value.v - v) % (2 ^ w) = 0
            /\ ~signed => (0 <= ret.value.v /\ ret.value.v <= 2 ^ w - 1)
            /\ signed =>
                   (0 - 2 ^ (w - 1) <= ret.value.v /\ ret.value.v <= 2 ^ (w - 1) - 1)

\* normalize(9, signed 4 bits) wraps to -7.
NormalizeCanonicalWitness ==
    /\ IsCall("Const.normalize")
    /\ call.args = [value |-> 9, shape |-> [width |-> 4, signed |-> TRUE]]
    /\ ret = Ret(Big(0 - 7))

\* C2: Const.normalize is idempotent: normalizing its own result again, for
\* the same shape, gives that result.
NormalizeIdempotent ==
    IsCall("Const.normalize") =>
        normalize(ret.value.v, call.args.shape) = ret.value.v

\* A first application that changed the value: normalize(-1, unsigned 3 bits)
\* is 7.
NormalizeIdempotentWitness ==
    /\ IsCall("Const.normalize")
    /\ call.args = [value |-> 0 - 1, shape |-> [width |-> 3, signed |-> FALSE]]
    /\ ret = Ret(Big(7))

\* The least width the claim C3 asks of bitsFor: for n > 0 the least w with
\* n <= 2^w - 1, one more with a sign bit; for n <= 0 the least w >= 1 with
\* -2^(w-1) <= n.
MinimalWidth(n, requireSignBit) ==
    IF n > 0
    THEN LET w == CHOOSE u \in 0..(MaxVal + 2) :
                      /\ n <= 2 ^ u - 1
                      /\ \A t \in 0..(u - 1) : ~(n <= 2 ^ t - 1)
         IN  IF requireSignBit THEN w + 1 ELSE w
    ELSE CHOOSE u \in 1..(MaxVal + 2) :
             /\ 0 - 2 ^ (u - 1) <= n
             /\ \A t \in 1..(u - 1) : ~(0 - 2 ^ (t - 1) <= n)

\* C3: bitsFor(n, requireSignBit) returns the minimal width that represents
\* n, for number and bigint arguments alike; so bitsFor(0) = 1 and
\* bitsFor(-1) = 1.
BitsForMinimal ==
    IsCall("bitsFor") =>
        ret = Ret(Num(MinimalWidth(call.args.n.v, call.args.requireSignBit)))

ShapeConstructors == {"Shape", "Shape.signed", "Shape.unsigned", "Shape.cast"}
NamesWidthBelowOne ==
    IF call.fn = "Shape.cast"
    THEN \/ call.args.obj.k = "number" /\ call.args.obj.num < 1
         \/ call.args.obj.k = "tuple" /\ call.args.obj.width < 1
    ELSE call.args.width < 1

\* C5: every Shape a constructor returns (new Shape, Shape.signed,
\* Shape.unsigned, Shape.cast of any source) has width >= 1, and a request
\* for a width below 1 fails with InvalidShape and returns no Shape.
ShapeWidthPositive ==
    (pc = "done" /\ call.fn \in ShapeConstructors) =>
        /\ Returned(ret) => ret.value.width >= 1
        /\ NamesWidthBelowOne => ret = Throw(InvalidShape)

\* Shape.cast([0, true]) is refused.
ShapeWidthPositiveWitness ==
    /\ IsCall("Shape.cast")
    /\ call.args.obj = [k |-> "tuple", width |-> 0, signed |-> TRUE]
    /\ ret = Throw(InvalidShape)

\* C6: Slice(value, start, stop) on an n-bit value is built exactly when,
\* with n added to each negative offset, 0 <= start < stop <= n; it then
\* stores those offsets and its shape is unsigned of width stop - start;
\* otherwise it fails with OutOfRange.
SliceAcceptsExactlyValid ==
    (IsCall("Slice") /\ call.args.of.k = "Value") =>
        LET n == call.args.of.obj.shape.width
            start == IF call.args.start < 0 THEN call.args.start + n ELSE call.args.start
            stop == IF call.args.stop < 0 THEN call.args.stop + n ELSE call.args.stop
        IN  IF 0 <= start /\ start < stop /\ stop <= n
            THEN /\ Returned(ret)
                 /\ ret.value.start = start
                 /\ ret.value.stop = stop
                 /\ ValueShape(ret.value) =
                        Ret([width |-> stop - start, signed |-> FALSE])
            ELSE ret.thrown \in {OutOfRangeStart, OutOfRangeStop, OutOfRangeOrder}

HasInvalidChar(pattern) ==
    \E i \in 1..Len(pattern) : ~(pattern[i] = "0" \/ pattern[i] = "1" \/ pattern[i] = "*")

\* C7: matches(...patterns) fails with InvalidPattern exactly when some
\* pattern has a character outside {0, 1, *}; patterns of 0, 1 and * alone
\* are never rejected as invalid.  (Stated for non-empty patterns.)
MatchesRejectsExactlyInvalid ==
    (/\ IsCall("matches")
     /\ \A i \in DOMAIN call.args.patterns : Len(call.args.patterns[i]) > 0) =>
        (ret.thrown = InvalidPattern
            <=> \E i \in DOMAIN call.args.patterns :
                    HasInvalidChar(call.args.patterns[i]))

\* The integers a Shape.cast source produces: the values a Range iterates,
\* the values of a mapping.
Produced(obj) ==
    IF obj.k = "Range"
    THEN {RangeIterate(obj.range)[i] : i \in DOMAIN RangeIterate(obj.range)}
    ELSE {obj.values[i] : i \in DOMAIN obj.values}

SetMax(S) == CHOOSE m \in S : \A x \in S : x <= m

\* C8: Shape.cast of a Range or of a mapping returns the minimal shape for
\* the integers it produces: signed iff one of them is negative, and as wide
\* as the widest bitsFor(x, signed) of them.  (Stated for sources that
\* produce at least one value, and Ranges of positive step.)
ShapeCastMinimal ==
    (/\ IsCall("Shape.cast")
     /\ call.args.obj.k \in {"Range", "dict"}
     /\ call.args.obj.k = "Range" => call.args.obj.range.step > 0
     /\ Produced(call.args.obj) # {}) =>
        LET xs == Produced(call.args.obj)
            signed == \E x \in xs : x < 0
        IN  ret = Ret([width |-> SetMax({bitsFor(Num(x), signed) : x \in xs}),
                       signed |-> signed])

\* C9: the shape of a binary + or - Operator is read successfully and is
\* max(wA, wB) + 1 wide, signed iff an operand is signed.
OperatorAddShape ==
    (/\ IsCall("shape")
     /\ call.args.self.type = "Operator"
     /\ call.args.self.operator \in {"+", "-"}) =>
        LET a == call.args.self.operands[1].shape
            b == call.args.self.operands[2].shape
        IN  ret = Ret([width |-> MathMax(a.width, b.width) + 1,
                       signed |-> a.signed \/ b.signed])

\* C10: log2_int(n, true) returns k for n = 2^k (k >= 0) and fails with
\* NotPowerOfTwo for every other positive n; log2_int(0) returns 0 whatever
\* need_pow2 is, for number and bigint arguments alike.
Log2IntPowersOfTwo ==
    IsCall("log2_int") =>
        LET n == call.args.n.v
        IN  /\ n = 0 => ret = Ret(Num(0))
            /\ (n > 0 /\ call.args.need_pow2) =>
                   IF \E k \in 0..n : 2 ^ k = n
                   THEN ret = Ret(Num(CHOOSE k \in 0..n : 2 ^ k = n))
                   ELSE ret = Throw(NotPowerOfTwo)

\* Whether the arguments of a Range constructor call name a step, and it.
NamesStep(a) ==
    \/ a.k = "named" /\ a.hasStep
    \/ a.k = "array" /\ Len(a.a) = 3
NamedStep(a) == IF a.k = "named" THEN a.step ELSE a.a[3]

\* C11: every Range the constructor accepts has a step > 0, a zero or
\* negative step being rejected at construction; so iterating a constructed
\* Range ends after finitely many values: an ascending Range yields start,
\* start + step, ... each below stop, at most stop - start of them, and
\* {start: 0, stop: 5, step: 2} yields exactly 0, 2, 4.
RangeStepPositiveAndIterationEnds ==
    /\ IsCall("Range") =>
           /\ Returned(ret) => ret.value.step > 0
           /\ (NamesStep(call.args.rangeArgs) /\ NamedStep(call.args.rangeArgs) <= 0)
                  => ~Returned(ret)
    /\ call.fn = "Range.iterator" =>
           LET self == call.args.self
               yielded == ret.value.yielded
           IN  /\ self.step > 0
               /\ self.start <= self.stop =>
                      /\ Len(yielded) <= self.stop - self.start
                      /\ \A i \in DOMAIN yielded :
                             /\ yielded[i] = self.start + (i - 1) * self.step
                             /\ yielded[i] < self.stop
               /\ (pc = "done" /\ self = RangeObj(0, 5, 2)) => yielded = <<0, 2, 4>>

====
